---------------------------- MODULE Spec2Model ----------------------------
(***************************************************************************)
(* Truck_Auto_Rigger: the belt curve construction of                       *)
(* scripts/belt_rig_builder.py (Circle, TangentLine, Arc, BeltCurve) and   *)
(* the Event class of scripts/event.py.                                    *)
(*                                                                         *)
(* Numbers.  The program computes with doubles; the model computes with    *)
(* integers.  A circle is given on an integer grid; `unit` is the size of  *)
(* one grid step in ticks, one tick being 0.0001 scene units, so that      *)
(* MIN_DIFF_VALUE (0.0001) is 1 tick and MINIMAL_SIZE (0.001) is 10 ticks. *)
(* Points and unit vectors are held in 1/NS of a grid step.  All formulas  *)
(* of the tangent construction are homogeneous in the lengths, except for  *)
(* the two constants, which is why the grid step can be chosen per input.  *)
(***************************************************************************)
EXTENDS Integers, Sequences, FiniteSets, TLC

VARIABLES
    unit,             \* ticks per grid step of this input
    store,            \* the Circle objects: id -> [x, y, r] (grid steps)
    circles,          \* the list handed to _build_belt_path: sequence of ids
    pc,               \* position in BeltCurve.__init__
    err,              \* the exception that ended the computation, "" if none
    starting_node,    \* id, 0 for None
    current_node,     \* id, 0 before the traversal started
    guide_direction,  \* unit vector, 1/NS
    path,             \* list of _Part
    steps,            \* find_external_tangent_in_system calls made so far
    traced,           \* the list `shapes` built by _trace_curve
    event,            \* Event.event: list of subscribed handlers
    invoked,          \* calls made by the last Event.__call__: <<handler, args>>
    last_op,          \* the last operation applied to the Event
    scene,            \* the host's scene: node name -> [shape, dag]
    selection,        \* the host's selection list: sequence of node names
    curve_name,       \* CurveRig.curve_name
    mesh_name,        \* CurveRig.mesh_name
    keep_original_curve,  \* CurveRig.keep_original_curve
    locator_name,     \* CurveRig.locator_name
    locator_group,    \* CurveRig.locator_group
    chain_log,        \* what the last press of Start did, in order, until the user's next input
    message,          \* the text of the chain tool's prompt box
    box_source,       \* the file the belt control box is built from
    box_state,        \* the state function of the belt control box that ran last
    buttons,          \* the labels of the buttons the belt control box shows
    tuning_enabled,   \* whether the tuning panel is enabled
    frame_exists,     \* the node named by BeltRigBuilder.frame_ctrl is in the scene
    core_exists,      \* the node named by BeltRigBuilder.core_ctrl is in the scene
    frame_locked,     \* the frame control's channels are locked
    circles_in_scene, \* how many nodes of BeltRigBuilder.circle_ctrls are in the scene
    circles_recorded, \* the length of BeltRigBuilder.circle_ctrls
    circles_parent,   \* what the recorded circles are parented under
    stray_circles,    \* circles of the rig under construction that no list records
    rig_built,        \* the recorded circles belong to a rig Accept has built
    arm_state,        \* the state of the arm control box
    arm_buttons,      \* the buttons the arm control box shows
    arm_tuning_enabled, \* the tuning panel of the arm tab is enabled
    locator_count,    \* ArmRigBuilder.locator_count, set in the tuning panel
    locators_recorded, \* the length of ArmRigBuilder.locators
    locators_in_scene, \* how many locators of the arm tool are in the scene
    joints_built,     \* create_joints has added joints to the scene
    ik_built,         \* create_ik_controllers has added an IK handle
    last_arm_press,   \* what the last press on the arm box did
    circle_ctrl_count,  \* BeltRigBuilder.circle_ctrl_count
    last_press,       \* the last button press on the belt control box
    outliner,         \* the importer's scene: node name -> parent name
    returned,         \* what the last CtrlImporter.import_ctrl call returned
    target,           \* the annotated fields of a tuning panel's target, in declaration order
    reflection        \* what _MetadataFragment.extract_reflection returned for it

beltVars == <<unit, store, circles, pc, err, starting_node, current_node,
              guide_direction, path, steps, traced>>
eventVars == <<event, invoked, last_op>>
chainVars == <<scene, selection, curve_name, mesh_name, keep_original_curve,
               locator_name, locator_group, chain_log, message>>
circleVars == <<circles_recorded, circles_parent, stray_circles, rig_built>>
rigVars == <<box_source, box_state, buttons, tuning_enabled, frame_exists, core_exists,
             frame_locked, circles_in_scene, circle_ctrl_count, last_press,
             outliner, returned, circleVars>>
reflectVars == <<target, reflection>>
armVars == <<arm_state, arm_buttons, arm_tuning_enabled, locator_count, locators_recorded,
             locators_in_scene, joints_built, ik_built, last_arm_press>>
toolVars == <<chainVars, rigVars, reflectVars, armVars>>
vars == <<beltVars, eventVars, toolVars>>

(***************************************************************************)
(* Bounds of the inputs                                                    *)
(***************************************************************************)
MaxCircles == 3     \* general inputs: lists of 0..MaxCircles circles
MaxX == 2           \* ... with centers in 0..MaxX x 0..MaxY
MaxY == 1
MaxR == 2           \* ... and radii 1..MaxR
MaxChain == 4       \* chains: up to MaxChain equal circles, X increasing
MaxGap == 2         \* ... consecutive X differ by 1..MaxGap
MaxChainY == 2      \* ... Y in 0..MaxChainY

(***************************************************************************)
(* Program constants, in ticks                                             *)
(***************************************************************************)
MIN_DIFF_VALUE == 1     \* 0.0001
MINIMAL_SIZE == 10      \* 0.001
SceneUnit == 10000      \* ticks in one scene unit
FineUnit == MINIMAL_SIZE \div 2    \* a grid step of half the minimal size
NS == SceneUnit \div 10            \* points and unit vectors: 1/NS grid step
INF == 3 * NS           \* math.inf: above every value angle() returns

(***************************************************************************)
(* Arithmetic                                                              *)
(***************************************************************************)
Abs(n) == IF n < 0 THEN -n ELSE n
Max(a, b) == IF a >= b THEN a ELSE b

RECURSIVE SqrtIter(_, _, _)
SqrtIter(n, lo, hi) ==
    IF lo >= hi THEN lo
    ELSE LET mid == (lo + hi + 1) \div 2
         IN  IF mid * mid <= n THEN SqrtIter(n, mid, hi)
                               ELSE SqrtIter(n, lo, mid - 1)

\* math.sqrt, rounded down
Sqrt(n) == SqrtIter(n, 0, 46340)

\* a / b rounded to the nearest integer, b > 0
Div(a, b) == (2 * a + b) \div (2 * b)

Vec(x, y) == [x |-> x, y |-> y]
kZeroVector == Vec(0, 0)
VLength(v) == Sqrt(v.x * v.x + v.y * v.y)

\* MVector.normal(): the vector scaled to length NS
VNormal(v) == LET len == VLength(v)
              IN  Vec(Div(v.x * NS, len), Div(v.y * NS, len))

(***************************************************************************)
(* MVector.angle(other): the unsigned angle between two unit vectors, in   *)
(* 0..2*NS.  The value is not in radians but grows with the angle from 0   *)
(* (same direction) to 2*NS (opposite); the program only compares angles.  *)
(***************************************************************************)
angle(g, d) ==
    LET c == g.x * d.x + g.y * d.y
        s == Abs(g.x * d.y - g.y * d.x)
    IN  IF s = 0 THEN (IF c >= 0 THEN 0 ELSE 2 * NS)
        ELSE LET t == (s * NS) \div (Abs(c) + s)
             IN  IF c >= 0 THEN t ELSE 2 * NS - t

(***************************************************************************)
(* Circle                                                                  *)
(***************************************************************************)
Circle(x, y, r) == [x |-> x, y |-> y, r |-> r]

\* Circle.create_bisector_circle: Circle(self.center + (other.center -
\* self.center) * 0.5, half the distance of the centers).  The center is held
\* doubled and the radius as the square of the diameter, both exact.
create_bisector_circle(self, other) ==
    [cx2 |-> self.x + other.x,
     cy2 |-> self.y + other.y,
     diam2 |-> (other.x - self.x) * (other.x - self.x)
               + (other.y - self.y) * (other.y - self.y)]

\* as create_difference_circle, without the floor MIN_DIFF_VALUE
create_difference_circle_unfloored(self, other) ==
    [x |-> self.x, y |-> self.y, radius |-> Abs(self.r - other.r) * unit]

\* Circle.create_difference_circle: Circle(self.center,
\* max(abs(self.radius - other.radius), MIN_DIFF_VALUE)); the radius in ticks.
create_difference_circle(self, other) ==
    [x |-> self.x, y |-> self.y,
     radius |-> Max(Abs(self.r - other.r) * unit, MIN_DIFF_VALUE)]

(***************************************************************************)
(* Circle.find_intersection, for self a bisector circle and other the      *)
(* difference circle of the same pair (the only call in the program), so   *)
(* that r0 = d.  With e = 2*(center of other - center of self), D2 = |e|^2 *)
(* and delta = r1:                                                         *)
(*   d = sqrt(D2)/2                 d = 0 raises ZeroDivisionError in      *)
(*                                  a = (...) / (2 * d)                    *)
(*   a = d - delta^2/(2d)                                                  *)
(*   r0^2 - a^2 = delta^2 * (D2 - delta^2) / D2                            *)
(*                                  negative iff delta^2 > D2: math.sqrt   *)
(*                                  raises ValueError                      *)
(*   (x3,y3) - center of other = (delta/D2) * (-delta*e + L*(e.y,-e.x))    *)
(*   (x4,y4) - center of other = (delta/D2) * (-delta*e - L*(e.y,-e.x))    *)
(* with L = sqrt(D2 - delta^2).  The two points are returned relative to   *)
(* the center of other and without the factor delta/(D2*NS), which the     *)
(* caller's .normal() cancels.  delta is taken in 1/NS grid steps, rounded *)
(* down.                                                                   *)
(***************************************************************************)
\* lines 478-486: the points (x3, y3) and (x4, y4)
intersection_points(ex, ey, dm, L) ==
    [err |-> "",
     pos |-> Vec(L * ey - dm * ex, 0 - L * ex - dm * ey),
     neg |-> Vec(0 - L * ey - dm * ex, L * ex - dm * ey)]

find_intersection(self, other) ==
    LET ex == 2 * other.x - self.cx2
        ey == 2 * other.y - self.cy2
        D2 == ex * ex + ey * ey
        dg == other.radius \div unit
        dm == (other.radius * NS) \div unit
    IN  IF D2 = 0
        THEN [err |-> "ZeroDivisionError", pos |-> kZeroVector, neg |-> kZeroVector]
        ELSE IF dg * dg > D2 \/ (dg * dg = D2 /\ other.radius % unit > 0)
        THEN [err |-> "ValueError", pos |-> kZeroVector, neg |-> kZeroVector]
        ELSE intersection_points(ex, ey, dm, Sqrt(NS * NS * D2 - dm * dm))

\* Circle.find_positive_external_tangent_normal.  The point returned by
\* find_intersection has length NS * diam2, so .normal() divides by diam2.
\* line 529: ((pos if is_forward else neg) - main_circle.center).normal(),
\* for the result of line 527 and the bisector's squared diameter
normal_of_intersection(inter, is_forward, diam2) ==
    IF inter.err # ""
    THEN [err |-> inter.err, normal |-> kZeroVector]
    ELSE IF is_forward
    THEN [err |-> "", normal |-> Vec(Div(inter.pos.x, diam2), Div(inter.pos.y, diam2))]
    ELSE [err |-> "", normal |-> Vec(Div(inter.neg.x, diam2), Div(inter.neg.y, diam2))]

find_positive_external_tangent_normal(self, other) ==
    LET is_forward == self.r > other.r
        main_circle == IF is_forward THEN self ELSE other
        target_circle == IF is_forward THEN other ELSE self
        bisector == create_bisector_circle(main_circle, target_circle)
        difference == create_difference_circle(main_circle, target_circle)
    IN  normal_of_intersection(find_intersection(bisector, difference),
                               is_forward, bisector.diam2)

(***************************************************************************)
(* TangentLine.__init__(circle_a, circle_b); `to` is the id of circle_b    *)
(* (0 in NoTangent, which stands for None).                                *)
(***************************************************************************)
NoTangent ==
    [err |-> "", to |-> 0, normal |-> kZeroVector, start |-> kZeroVector,
     end |-> kZeroVector, direction |-> kZeroVector, length |-> 0]

\* lines 437-443, for the normal n of line 435
tangent_of_normal(n, circle_a, circle_b, b_id) ==
    LET normal == n.normal
        start == Vec(normal.x * circle_a.r + NS * circle_a.x,
                     normal.y * circle_a.r + NS * circle_a.y)
        end == Vec(normal.x * circle_b.r + NS * circle_b.x,
                   normal.y * circle_b.r + NS * circle_b.y)
        base == Vec(end.x - start.x, end.y - start.y)
    IN  IF n.err # ""
        THEN [NoTangent EXCEPT !.err = n.err]
        ELSE [err |-> "", to |-> b_id, normal |-> normal, start |-> start,
              end |-> end, direction |-> VNormal(base), length |-> VLength(base)]

TangentLine(circle_a, circle_b, b_id) ==
    tangent_of_normal(find_positive_external_tangent_normal(circle_a, circle_b),
                      circle_a, circle_b, b_id)

(***************************************************************************)
(* Circle.find_external_tangent_in_system(self, start_direction,           *)
(* unvisited_nodes): the loop over unvisited_nodes, from position i on,    *)
(* with the three locals of the method.  An exception of TangentLine ends  *)
(* the loop.  The list is passed by reference; `nodes` is the list as the  *)
(* method leaves it.                                                       *)
(***************************************************************************)
RECURSIVE tangent_loop(_, _, _, _, _, _)
RECURSIVE tangent_try(_, _, _, _, _, _, _)
tangent_loop(self, start_direction, unvisited_nodes, i, smaller_angle, closest) ==
    IF i > Len(unvisited_nodes)
    THEN [err |-> "", tangent |-> closest, segway |-> closest.to,
          nodes |-> unvisited_nodes]
    ELSE IF self = unvisited_nodes[i]
    THEN tangent_loop(self, start_direction, unvisited_nodes, i + 1,
                      smaller_angle, closest)
    ELSE tangent_try(self, start_direction, unvisited_nodes, i, smaller_angle,
                     closest,
                     TangentLine(store[self], store[unvisited_nodes[i]],
                                 unvisited_nodes[i]))

\* as tangent_try, a candidate with the same angle replacing the closest
tangent_try_ties(self, start_direction, unvisited_nodes, i, smaller_angle, closest, new_tangent) ==
    IF new_tangent.err # ""
    THEN [err |-> new_tangent.err, tangent |-> NoTangent, segway |-> 0,
          nodes |-> unvisited_nodes]
    ELSE IF angle(start_direction, new_tangent.direction) > smaller_angle
    THEN tangent_loop(self, start_direction, unvisited_nodes, i + 1,
                      smaller_angle, closest)
    ELSE tangent_loop(self, start_direction, unvisited_nodes, i + 1,
                      angle(start_direction, new_tangent.direction), new_tangent)

\* lines 508-517 of the loop body, for the new_tangent of line 508
tangent_try(self, start_direction, unvisited_nodes, i, smaller_angle, closest, new_tangent) ==
    IF new_tangent.err # ""
    THEN [err |-> new_tangent.err, tangent |-> NoTangent, segway |-> 0,
          nodes |-> unvisited_nodes]
    ELSE IF angle(start_direction, new_tangent.direction) >= smaller_angle
    THEN tangent_loop(self, start_direction, unvisited_nodes, i + 1,
                      smaller_angle, closest)
    ELSE tangent_loop(self, start_direction, unvisited_nodes, i + 1,
                      angle(start_direction, new_tangent.direction), new_tangent)

\* as find_external_tangent_in_system, with smaller_angle starting at 0
find_external_tangent_from_zero(self, start_direction, unvisited_nodes) ==
    tangent_loop(self, start_direction, unvisited_nodes, 1, 0, NoTangent)

\* as find_external_tangent_in_system, taking the chosen node off the list
pop_segway(found) ==
    [found EXCEPT !.nodes = SelectSeq(found.nodes, LAMBDA n : n # found.segway)]

find_external_tangent_popping(self, start_direction, unvisited_nodes) ==
    pop_segway(tangent_loop(self, start_direction, unvisited_nodes, 1, INF,
                            NoTangent))

find_external_tangent_in_system(self, start_direction, unvisited_nodes) ==
    tangent_loop(self, start_direction, unvisited_nodes, 1, INF, NoTangent)

(***************************************************************************)
(* AbstractShape, Arc, BeltCurve._Part                                     *)
(***************************************************************************)
\* Arc._extrapolate_direction: direction * self.circle.radius + self.circle.center
extrapolate_direction(circle, direction) ==
    Vec(direction.x * circle.r + NS * circle.x,
        direction.y * circle.r + NS * circle.y)

\* BeltCurve._Part.__init__: a fresh Arc (start = end = kZeroVector), no tangent
Part(circle) ==
    [circle |-> circle,
     arc |-> [start |-> kZeroVector, end |-> kZeroVector],
     tangent |-> NoTangent]

\* AbstractShape.is_legal: (self.start - self.end).length() >= MINIMAL_SIZE,
\* the length in 1/NS grid steps against MINIMAL_SIZE in ticks
is_legal(shape) ==
    VLength(Vec(shape.start.x - shape.end.x, shape.start.y - shape.end.y)) * unit
        >= MINIMAL_SIZE * NS

(***************************************************************************)
(* BeltCurve._trace_curve, the loop that fills `shapes`: for every part,   *)
(* its arc and then its tangent (BeltCurve._Part.__iter__) go through      *)
(* AbstractShape.trace_path, which returns "" for a shape that is not      *)
(* legal; a curve that was created is appended.  The curve part_{i*2+j}    *)
(* is recorded as [part |-> i, kind |-> "arc" or "tangent"].               *)
(***************************************************************************)
\* as trace_path, with the tangent exempt from the legality test
trace_path_tangent_always(shape, i, kind) ==
    IF kind = "arc" /\ ~is_legal(shape) THEN <<>>
    ELSE <<[part |-> i, kind |-> kind]>>

trace_path(shape, i, kind) ==
    IF ~is_legal(shape) THEN <<>> ELSE <<[part |-> i, kind |-> kind]>>

RECURSIVE trace_curve(_, _)
trace_curve(full_path, i) ==
    IF i > Len(full_path) THEN <<>>
    ELSE trace_path(full_path[i].arc, i, "arc")
         \o trace_path(full_path[i].tangent, i, "tangent")
         \o trace_curve(full_path, i + 1)

(***************************************************************************)
(* BeltCurve._build_belt_path                                              *)
(***************************************************************************)
\* min(circles, key=lambda o: o.center.x): the first circle of the list
\* with the smallest center.x
RECURSIVE min_circle(_, _, _)
RECURSIVE min_circle_last(_, _, _)
\* as min_circle, a later circle with the same center.x replacing the best
min_circle_last(nodes, i, best) ==
    IF i > Len(nodes) THEN best
    ELSE IF store[nodes[i]].x <= store[best].x
         THEN min_circle_last(nodes, i + 1, nodes[i])
         ELSE min_circle_last(nodes, i + 1, best)

min_circle(nodes, i, best) ==
    IF i > Len(nodes) THEN best
    ELSE IF store[nodes[i]].x < store[best].x
         THEN min_circle(nodes, i + 1, nodes[i])
         ELSE min_circle(nodes, i + 1, best)

\* A run of the loop that comes back to the starting node makes fewer than
\* PathCap parts: the loop's state is (current_node, guide_direction), and
\* the guide is fixed by the pair of the last two nodes.  Beyond that the run
\* repeats itself for ever and the parts it would go on appending are not
\* recorded.
PathCap == Len(circles) * Len(circles) + 2

\* lines 578-584: path, starting_node, current_node, guide_direction
Begin ==
    /\ pc = "build"
    /\ IF Len(circles) = 0
       THEN /\ pc' = "error"
            /\ err' = "ValueError"        \* min() arg is an empty sequence
            /\ UNCHANGED <<starting_node, current_node, guide_direction, path>>
       ELSE LET first == min_circle(circles, 2, circles[1])
            IN  /\ starting_node' = 0
                /\ current_node' = first
                /\ guide_direction' = Vec(0, NS)
                /\ path' = <<Part(first)>>
                /\ pc' = "loop"
                /\ err' = ""
    /\ UNCHANGED <<unit, store, circles, steps, traced>>
    /\ UNCHANGED <<eventVars, toolVars>>

\* lines 597-606, for the result `found` of line 594
Advance(found) ==
    LET tangent == found.tangent
        next_node == found.segway
        last == Len(path)
        ended == [path EXCEPT
                     ![last].arc.end =
                         extrapolate_direction(store[path[last].circle],
                                               tangent.normal),
                     ![last].tangent = tangent]
        begun == [Part(next_node) EXCEPT
                     !.arc.start =
                         extrapolate_direction(store[next_node],
                                               tangent.normal)]
    IN  /\ circles' = found.nodes
        /\ IF found.err # ""
           THEN /\ pc' = "error"
                /\ err' = found.err
                /\ UNCHANGED <<current_node, guide_direction, path>>
           ELSE IF next_node = 0
           THEN /\ pc' = "error"       \* tangent is None: tangent.direction
                /\ err' = "AttributeError"
                /\ UNCHANGED <<current_node, guide_direction, path>>
           ELSE /\ guide_direction' = tangent.direction
                /\ path' = IF last < PathCap THEN Append(ended, begun)
                                             ELSE path
                /\ current_node' = next_node
                /\ UNCHANGED <<pc, err>>

\* lines 587-606: one iteration of `while starting_node != current_node`
Step ==
    /\ pc = "loop"
    /\ starting_node # current_node
    /\ starting_node' = IF starting_node = 0 THEN current_node
                                             ELSE starting_node
    /\ steps' = IF steps < PathCap THEN steps + 1 ELSE steps
    /\ Advance(find_external_tangent_in_system(current_node, guide_direction,
                                               circles))
    /\ UNCHANGED <<unit, store, traced>>
    /\ UNCHANGED <<eventVars, toolVars>>

\* as Wrap, the popped entry's arc.start not copied to path[0]
WrapPopOnly ==
    /\ pc = "loop"
    /\ starting_node = current_node
    /\ path' = SubSeq(path, 1, Len(path) - 1)
    /\ pc' = "trace"
    /\ UNCHANGED <<unit, store, circles, err, starting_node, current_node,
                   guide_direction, steps, traced>>
    /\ UNCHANGED <<eventVars, toolVars>>

\* lines 608-611: path[0].arc.start = path.pop().arc.start; return path
Wrap ==
    /\ pc = "loop"
    /\ starting_node = current_node
    /\ LET popped == path[Len(path)]
           rest == SubSeq(path, 1, Len(path) - 1)
       IN  path' = [rest EXCEPT ![1].arc.start = popped.arc.start]
    /\ pc' = "trace"
    /\ UNCHANGED <<unit, store, circles, err, starting_node, current_node,
                   guide_direction, steps, traced>>
    /\ UNCHANGED <<eventVars, toolVars>>

\* BeltCurve._trace_curve, lines 614-619
Trace ==
    /\ pc = "trace"
    /\ traced' = trace_curve(path, 1)
    /\ pc' = "done"
    /\ UNCHANGED <<unit, store, circles, err, starting_node, current_node,
                   guide_direction, path, steps>>
    /\ UNCHANGED <<eventVars, toolVars>>

(***************************************************************************)
(* Event (scripts/event.py; main.py holds a copy of the class)             *)
(***************************************************************************)
MaxHandlers == 3    \* handlers 1..MaxHandlers
MaxSubs == 3        \* at most MaxSubs subscriptions at a time
MaxArg == 1         \* the arguments of a call: 0..MaxArg

NoOp == [op |-> "none", handler |-> 0, args |-> 0, raised |-> ""]

\* list.remove(x): removes the first item equal to x, ValueError if none
RECURSIVE list_remove(_, _)
list_remove(list, x) ==
    IF list = <<>> THEN [err |-> "ValueError", list |-> <<>>]
    ELSE IF Head(list) = x THEN [err |-> "", list |-> Tail(list)]
    ELSE LET rest == list_remove(Tail(list), x)
         IN  [err |-> rest.err, list |-> <<Head(list)>> \o rest.list]

\* as event_call, last subscriber first
RECURSIVE event_call_reversed(_, _, _)
event_call_reversed(list, i, args) ==
    IF i > Len(list) THEN <<>>
    ELSE event_call_reversed(list, i + 1, args)
         \o <<[method |-> list[i], args |-> args]>>

\* Event.__call__: for method in self.event: method(*args, **kwargs)
RECURSIVE event_call(_, _, _)
event_call(list, i, args) ==
    IF i > Len(list) THEN <<>>
    ELSE <<[method |-> list[i], args |-> args]>> \o event_call(list, i + 1, args)

\* Event.__add__
Add(h) ==
    /\ pc = "idle"
    /\ Len(event) < MaxSubs
    /\ event' = Append(event, h)
    /\ invoked' = <<>>
    /\ last_op' = [op |-> "add", handler |-> h, args |-> 0, raised |-> ""]
    /\ UNCHANGED <<beltVars, toolVars>>

\* Event.__sub__
Sub(h) ==
    /\ pc = "idle"
    /\ LET removed == list_remove(event, h)
       IN  /\ event' = IF removed.err = "" THEN removed.list ELSE event
           /\ last_op' = [op |-> "sub", handler |-> h, args |-> 0,
                          raised |-> removed.err]
    /\ invoked' = <<>>
    /\ UNCHANGED <<beltVars, toolVars>>

\* Event.__call__
Call(a) ==
    /\ pc = "idle"
    /\ invoked' = event_call(event, 1, a)
    /\ last_op' = [op |-> "call", handler |-> 0, args |-> a, raised |-> ""]
    /\ UNCHANGED event
    /\ UNCHANGED <<beltVars, toolVars>>

(***************************************************************************)
(* The chain tool (CurveRig and the chain control box).  A name is a       *)
(* sequence of text chunks, so that f"{a}_{b}" is a \o <<"_">> \o b and    *)
(* the empty string is <<>>.  The scene maps the name of every node to the *)
(* type of its own shape and the type of the first shape found in its      *)
(* hierarchy ("none" when there is none).  Locators and duplicated rings   *)
(* are tracked through the group that holds them.                          *)
(***************************************************************************)
MaxSelected == 1
MaxNameLen == 1

None == <<"None">>
Truthy(name) == name # <<>> /\ name # None

kCurve == "nurbsCurve"
kMesh == "mesh"
kLocator == "locator"

Node(shape, dag) == [shape |-> shape, dag |-> dag]
Put(sc, name, node) == [n \in DOMAIN sc \cup {name} |-> IF n = name THEN node ELSE sc[n]]
Delete(sc, name) == [n \in DOMAIN sc \ {name} |-> sc[n]]
Unselect(sel, name) == SelectSeq(sel, LAMBDA n : n # name)

\* cmds.ls(sl=True, s=True, dag=True)[0]: the first shape in the hierarchies
\* of the selected nodes, in selection order.
RECURSIVE first_dag_shape(_, _)
first_dag_shape(sc, sel) ==
    IF sel = <<>> THEN "none"
    ELSE IF sc[Head(sel)].dag # "none" THEN sc[Head(sel)].dag
    ELSE first_dag_shape(sc, Tail(sel))

\* CurveRig._get_abstract_input up to the callback: which callback it
\* invokes ("raise" when an exception leaves it before any callback), the
\* value its return statement yields and the name handed to on_error.
\* cmds.listRelatives raises for a name that matches no object and returns
\* None for an object without a shape; indexing the empty list of selected
\* shapes raises.
get_abstract_input(type_name, default_name, sc, sel) ==
    IF Truthy(default_name) /\ default_name \notin DOMAIN sc
    THEN [outcome |-> "raise", result |-> None]
    ELSE IF Truthy(default_name) /\ sc[default_name].shape = "none"
    THEN [outcome |-> "raise", result |-> None]
    ELSE IF Truthy(default_name) /\ sc[default_name].shape = type_name
    THEN [outcome |-> "on_success", result |-> default_name]
    ELSE IF sel = <<>>
    THEN [outcome |-> "on_error", result |-> None]
    ELSE IF first_dag_shape(sc, sel) = "none"
    THEN [outcome |-> "raise", result |-> None]
    ELSE IF first_dag_shape(sc, sel) # type_name
    THEN [outcome |-> "on_error", result |-> None]
    ELSE [outcome |-> "on_success", result |-> Head(sel)]

\* One line of chain_log.  A lookup line carries what the scene looked like
\* when the lookup was made; a resample line carries what it looked like
\* when resample_curve returned.
LookupEntry(op, type_name, default_name, r, sc, sel) ==
    [op |-> op, name |-> default_name, outcome |-> r.outcome, result |-> r.result,
     default_ok |-> /\ Truthy(default_name)
                    /\ default_name \in DOMAIN sc
                    /\ sc[default_name].shape = type_name,
     selected |-> IF sel = <<>> THEN None ELSE Head(sel),
     selected_ok |-> sel # <<>> /\ sc[Head(sel)].dag = type_name,
     keep |-> FALSE, kept |-> FALSE]
StepEntry(op, name, outcome, result, keep, kept) ==
    [op |-> op, name |-> name, outcome |-> outcome, result |-> result,
     default_ok |-> FALSE, selected |-> None, selected_ok |-> FALSE,
     keep |-> keep, kept |-> kept]

Raise(st, entry) == [st EXCEPT !.raised = TRUE, !.log = Append(@, entry)]

Rebuilt == <<"_", "Rebuilt">>
LocatorGroupName == <<"Curve_Locator_Group">>
MeshGroupName == <<"Chain_Mesh_Group">>

\* CurveRig.resample_curve.  rebuildCurve with rpo=False makes a new curve
\* named after the n flag; with rpo=True it rebuilds the curve in place and
\* returns its name.
rebuildCurve(sc, name, rpo) == IF rpo THEN sc ELSE Put(sc, name \o Rebuilt, Node(kCurve, kCurve))
rebuilt_name(name, rpo) == IF rpo THEN name ELSE name \o Rebuilt

resampled(st, keep, new_curve, sc) ==
    [st EXCEPT !.scene = sc,
               !.selection = SelectSeq(@, LAMBDA n : n \in DOMAIN sc),
               !.curve_name = new_curve,
               !.log = Append(@, StepEntry("resample_curve", st.curve_name, "done", new_curve, keep, st.curve_name \in DOMAIN sc))]

resample_curve(st, keep) ==
    IF st.curve_name \notin DOMAIN st.scene
    THEN Raise(st, StepEntry("resample_curve", st.curve_name, "raise", None, keep, FALSE))
    ELSE IF st.scene[st.curve_name].shape # kCurve
    THEN Raise(st, StepEntry("resample_curve", st.curve_name, "raise", None, keep, TRUE))
    ELSE resampled(st, keep, rebuilt_name(st.curve_name, ~keep),
                   IF keep THEN Delete(rebuildCurve(st.scene, st.curve_name, ~keep), st.curve_name)
                   ELSE rebuildCurve(st.scene, st.curve_name, ~keep))

\* CurveRig.clear_locator_group
clear_locator_group(st) ==
    IF st.locator_group \in DOMAIN st.scene
    THEN [st EXCEPT !.scene = Delete(@, st.locator_group),
                    !.selection = Unselect(@, st.locator_group),
                    !.locator_group = <<>>,
                    !.locator_name = <<>>]
    ELSE st

\* CurveRig.create_locators after clear_locator_group.  With an empty
\* locator_name the locators are renamed to "#", a name without a legal
\* character: whether the host accepts it is the input `legal`.
place_locators(st, legal) ==
    IF st.locator_name = <<>> /\ ~legal
    THEN Raise(st, StepEntry("create_locators", st.locator_name, "raise", None, FALSE, FALSE))
    ELSE [st EXCEPT !.scene = Put(@, st.locator_name \o <<"_">> \o LocatorGroupName, Node("none", kLocator)),
                    !.selection = <<st.locator_name \o <<"_">> \o LocatorGroupName>>,
                    !.locator_group = st.locator_name \o <<"_">> \o LocatorGroupName,
                    !.log = Append(@, StepEntry("create_locators", st.locator_name, "done", st.locator_name \o <<"_">> \o LocatorGroupName, FALSE, FALSE))]

create_locators(st, legal) == place_locators(clear_locator_group(st), legal)

\* An entry appended when the step that produced st returned normally.
Done(st, entry) == IF st.raised THEN st ELSE [st EXCEPT !.log = Append(@, entry)]

\* CurveRig.build_curve (smooth_curve moves the curve's points only)
build_curve_rest(st, legal) ==
    IF st.raised THEN st
    ELSE Done(create_locators(st, legal), StepEntry("build_curve", st.curve_name, "done", None, FALSE, FALSE))

build_curve(st, keep, legal) == build_curve_rest(resample_curve(st, keep), legal)

\* CurveRig.duplicate_mesh: one copy of mesh_name per locator, grouped.
duplicate_mesh(st) ==
    IF st.mesh_name \notin DOMAIN st.scene
    THEN Raise(st, StepEntry("duplicate_mesh", st.mesh_name, "raise", None, FALSE, FALSE))
    ELSE [st EXCEPT !.scene = Put(@, MeshGroupName, Node("none", st.scene[st.mesh_name].dag)),
                    !.selection = <<MeshGroupName>>,
                    !.log = Append(@, StepEntry("duplicate_mesh", st.mesh_name, "done", MeshGroupName, FALSE, FALSE))]

\* The assignment of get_mesh_input / get_curve_input, reached only when
\* the callback returned normally.
assign_mesh_name(st, result) == IF st.raised THEN st ELSE [st EXCEPT !.mesh_name = result]
assign_curve_name(st, result) == IF st.raised THEN st ELSE [st EXCEPT !.curve_name = result]

\* CurveRig.get_mesh_input with the callbacks on_has_curve gives it
\* (on_has_mesh, and the 'mesh not found' message).
mesh_input_outcome(st, r) ==
    IF r.outcome = "raise" THEN [st EXCEPT !.raised = TRUE]
    ELSE IF r.outcome = "on_error"
    THEN [st EXCEPT !.message = "mesh not found", !.mesh_name = None]
    ELSE assign_mesh_name(duplicate_mesh(st), r.result)

get_mesh_input_with(st, r) ==
    mesh_input_outcome([st EXCEPT !.log = Append(@, LookupEntry("get_mesh_input", kMesh, st.mesh_name, r, st.scene, st.selection))], r)

get_mesh_input(st) ==
    get_mesh_input_with(st, get_abstract_input(kMesh, st.mesh_name, st.scene, st.selection))

\* Window.chain_control_box_widget.on_has_curve
on_has_curve_rest(st) == IF st.raised THEN st ELSE get_mesh_input(st)
on_has_curve(st, keep, legal) == on_has_curve_rest(build_curve(st, keep, legal))

\* CurveRig.get_curve_input with the callbacks on_kickstart_tool gives it
\* (on_has_curve, and the 'Reference not found' message).
curve_input_outcome(st, r, keep, legal) ==
    IF r.outcome = "raise" THEN [st EXCEPT !.raised = TRUE]
    ELSE IF r.outcome = "on_error"
    THEN [st EXCEPT !.message = "curve not found", !.curve_name = None]
    ELSE assign_curve_name(on_has_curve(st, keep, legal), r.result)

get_curve_input_with(st, r, keep, legal) ==
    curve_input_outcome([st EXCEPT !.log = Append(@, LookupEntry("get_curve_input", kCurve, st.curve_name, r, st.scene, st.selection))], r, keep, legal)

get_curve_input(st, keep, legal) ==
    get_curve_input_with(st, get_abstract_input(kCurve, st.curve_name, st.scene, st.selection), keep, legal)

\* Window.chain_control_box_widget.on_kickstart_tool: the Start button.
on_kickstart_tool(st, keep, legal) == get_curve_input(st, keep, legal)

ToolState ==
    [scene |-> scene, selection |-> selection, curve_name |-> curve_name,
     mesh_name |-> mesh_name, locator_name |-> locator_name,
     locator_group |-> locator_group, message |-> message,
     log |-> <<>>, raised |-> FALSE]

Started(st) ==
    /\ scene' = st.scene
    /\ selection' = st.selection
    /\ curve_name' = st.curve_name
    /\ mesh_name' = st.mesh_name
    /\ locator_name' = st.locator_name
    /\ locator_group' = st.locator_group
    /\ message' = st.message
    /\ chain_log' = st.log

\* A rebuilt curve's name is longer than the original's, and a press that
\* raises after resample_curve keeps it in curve_name: the model stops
\* pressing Start once the name is longer than MaxNameLen.
StartPressed ==
    /\ pc = "chain"
    /\ Len(curve_name) <= MaxNameLen
    /\ \E legal \in BOOLEAN : Started(on_kickstart_tool(ToolState, keep_original_curve, legal))
    /\ UNCHANGED <<keep_original_curve, beltVars, eventVars, rigVars, reflectVars, armVars>>

\* The user's part: the text fields, the Keep Curve toggle, the selection.
Ghost == <<"ghost">>
Typeable == {<<>>, Ghost} \cup {n \in DOMAIN scene : Len(n) <= MaxNameLen}

TypeCurveName(n) ==
    /\ pc = "chain"
    /\ n \in Typeable
    /\ curve_name' = n
    /\ chain_log' = <<>>
    /\ UNCHANGED <<scene, selection, mesh_name, keep_original_curve, locator_name, locator_group, message, beltVars, eventVars, rigVars, reflectVars, armVars>>

TypeMeshName(n) ==
    /\ pc = "chain"
    /\ n \in Typeable
    /\ mesh_name' = n
    /\ chain_log' = <<>>
    /\ UNCHANGED <<scene, selection, curve_name, keep_original_curve, locator_name, locator_group, message, beltVars, eventVars, rigVars, reflectVars, armVars>>

ToggleKeep ==
    /\ pc = "chain"
    /\ keep_original_curve' = ~keep_original_curve
    /\ chain_log' = <<>>
    /\ UNCHANGED <<scene, selection, curve_name, mesh_name, locator_name, locator_group, message, beltVars, eventVars, rigVars, reflectVars, armVars>>

Selections == {sel \in UNION {[1..k -> DOMAIN scene] : k \in 0..MaxSelected} : \A i, j \in DOMAIN sel : i # j => sel[i] # sel[j]}

SelectNodes(sel) ==
    /\ pc = "chain"
    /\ sel \in Selections
    /\ selection' = sel
    /\ chain_log' = <<>>
    /\ UNCHANGED <<scene, curve_name, mesh_name, keep_original_curve, locator_name, locator_group, message, beltVars, eventVars, rigVars, reflectVars, armVars>>

\* The scene the chain tool is opened on and the fields of a new CurveRig.
CurveNode == <<"c">>
RingNode == <<"ring">>
GroupNode == <<"grp">>
StartScene == [n \in {CurveNode, RingNode, GroupNode} |-> IF n = CurveNode THEN Node(kCurve, kCurve) ELSE IF n = RingNode THEN Node(kMesh, kMesh) ELSE Node("none", "none")]

InitTools ==
    /\ scene = StartScene
    /\ selection = <<>>
    /\ curve_name = <<>>
    /\ mesh_name = <<>>
    /\ keep_original_curve = TRUE
    /\ locator_name = <<"Curve_Locator">>
    /\ locator_group = <<>>
    /\ chain_log = <<>>
    /\ message = "write your curve and mesh name"

(***************************************************************************)
(* The belt control box (Window.belt_control_box_widget) and the part of   *)
(* BeltRigBuilder its buttons call.  A press is evaluated on a record of   *)
(* the box and the tool; `raised` says an exception left the handler and   *)
(* `entered` that a state function ran during the press.                   *)
(***************************************************************************)
MaxWheelCount == 3
MinWheelCount == 2
MaxStray == 3

kStart == "Start Building Rig"
ButtonsOf(s) == IF s = "starting" THEN {kStart} ELSE {"Accept", "Reset", "Back"}

\* The `state` decorator's wrapper around a state function: the children of
\* the box are deleted and the state function adds its own buttons.
enter_state(bx, s) ==
    IF bx.raised THEN bx
    ELSE [bx EXCEPT !.state = s, !.buttons = ButtonsOf(s), !.entered = TRUE]

starting_state(bx) == enter_state(bx, "starting")
position_frame_state(bx) == enter_state(bx, "position_frame")
position_wheels_state(bx) == enter_state(bx, "position_wheels")

enable_tuning_panel(bx, on) == IF bx.raised THEN bx ELSE [bx EXCEPT !.tuning = on]

\* BeltRigBuilder.build_core_ctrl: a new frame, which frame_ctrl names from
\* now on; a core unless there is one
build_core_ctrl(bx) ==
    IF bx.raised THEN bx
    ELSE [bx EXCEPT !.frame = TRUE, !.locked = FALSE, !.core = TRUE,
                    !.parent = IF @ = "frame" THEN "old frame" ELSE @]

\* BeltRigBuilder.destroy_core_ctrl: cmds.delete raises when one of the two
\* names matches no object
destroy_core_ctrl(bx) ==
    IF bx.raised THEN bx
    ELSE IF ~bx.frame \/ ~bx.core THEN [bx EXCEPT !.raised = TRUE]
    ELSE [bx EXCEPT !.frame = FALSE, !.core = FALSE, !.locked = FALSE,
                    !.circles = IF bx.parent = "frame" THEN 0 ELSE @,
                    !.parent = IF @ = "frame" THEN "none" ELSE @]

\* BeltRigBuilder.lock_frame_ctrl
lock_frame_ctrl(bx) ==
    IF bx.raised THEN bx
    ELSE IF ~bx.frame THEN [bx EXCEPT !.raised = TRUE]
    ELSE [bx EXCEPT !.locked = TRUE]

\* BeltRigBuilder.unlock_frame_ctrl
unlock_frame_ctrl(bx) ==
    IF bx.raised THEN bx
    ELSE IF ~bx.frame THEN [bx EXCEPT !.raised = TRUE]
    ELSE [bx EXCEPT !.locked = FALSE]

\* BeltRigBuilder.build_circle_ctrls: a new list of circle_ctrl_count
\* circles, then parented under the frame.  Circles the old list recorded
\* and that are still in the scene stay there; they are strays unless they
\* belong to a rig that was built.
build_circle_ctrls(bx, count) ==
    IF bx.raised THEN bx
    ELSE [bx EXCEPT !.stray = IF bx.circles > 0 /\ ~bx.rig_built THEN @ + bx.circles ELSE @,
                    !.rig_built = FALSE,
                    !.recorded = count,
                    !.circles = count,
                    !.parent = IF bx.frame THEN "frame" ELSE "world",
                    !.raised = ~bx.frame]

\* BeltRigBuilder.destroy_circle_ctrls: cmds.delete raises when a recorded
\* circle is no longer in the scene; the list keeps the names
destroy_circle_ctrls(bx) ==
    IF bx.raised THEN bx
    ELSE IF bx.circles # bx.recorded THEN [bx EXCEPT !.raised = TRUE]
    ELSE [bx EXCEPT !.circles = 0, !.parent = "none"]

\* What Accept runs in the position-wheels state: build_belt_ctrl and
\* build_mash_driver in window.py, BeltRigBuilder.finish in
\* belt_rig_builder.py, which goes on to move the circles under the belt
\* and delete the frame (clean_controls) and to add attributes to the core
\* (upgrade_controls).  BeltCurve duplicates the frame with the circles
\* under it, moves the copies of the circles to the world, computes the
\* belt from them and deletes the copies as its last step.  `outcome` is
\* how the build goes: "done", "raise" (the belt computation raises, and
\* the copies stay in the scene) or "raise late" (a step after the belt
\* raises: build_mash_driver, upgrade_controls).
FinishOutcomes == {"done", "raise", "raise late"}

finish(bx, outcome, source) ==
    IF bx.raised THEN bx
    ELSE IF ~bx.frame THEN [bx EXCEPT !.raised = TRUE]
    ELSE IF outcome = "raise"
    THEN [bx EXCEPT !.stray = IF bx.parent = "frame" THEN @ + bx.circles ELSE @,
                    !.raised = TRUE]
    ELSE IF ~bx.core THEN [bx EXCEPT !.raised = TRUE]
    ELSE IF source = "window.py"
    THEN [bx EXCEPT !.rig_built = (outcome = "done"), !.raised = (outcome # "done")]
    ELSE [bx EXCEPT !.frame = FALSE, !.locked = FALSE, !.parent = "belt",
                    !.rig_built = (outcome = "done"), !.raised = (outcome # "done")]

\* The handlers of the three states
on_kickstart_belt(bx) == build_core_ctrl(position_frame_state(enable_tuning_panel(bx, FALSE)))

frame_on_reset(bx) == position_frame_state(build_core_ctrl(destroy_core_ctrl(bx)))
frame_on_apply_unlocked(bx, count) == position_wheels_state(build_circle_ctrls(bx, count))
frame_on_apply(bx, count) == position_wheels_state(build_circle_ctrls(lock_frame_ctrl(bx), count))
frame_on_back_disabled(bx) == starting_state(destroy_core_ctrl(bx))
frame_on_back(bx) == starting_state(enable_tuning_panel(destroy_core_ctrl(bx), TRUE))

wheels_on_reset(bx, count) == position_wheels_state(build_circle_ctrls(destroy_circle_ctrls(bx), count))
wheels_on_apply(bx, outcome, source) == starting_state(enable_tuning_panel(finish(bx, outcome, source), TRUE))
wheels_on_back_to_start(bx, count) == starting_state(unlock_frame_ctrl(destroy_circle_ctrls(bx)))
wheels_on_back(bx, count) == position_frame_state(unlock_frame_ctrl(destroy_circle_ctrls(bx)))

\* The command of the button `button` as the state that drew it bound it
handler(bx, button, count, outcome, source) ==
    IF bx.state = "starting" THEN on_kickstart_belt(bx)
    ELSE IF bx.state = "position_frame"
    THEN IF button = "Reset" THEN frame_on_reset(bx)
         ELSE IF button = "Accept" THEN frame_on_apply(bx, count)
         ELSE frame_on_back(bx)
    ELSE IF button = "Reset" THEN wheels_on_reset(bx, count)
         ELSE IF button = "Accept" THEN wheels_on_apply(bx, outcome, source)
         ELSE wheels_on_back(bx, count)

Box ==
    [state |-> box_state, buttons |-> buttons, tuning |-> tuning_enabled,
     frame |-> frame_exists, core |-> core_exists, locked |-> frame_locked,
     circles |-> circles_in_scene, recorded |-> circles_recorded,
     parent |-> circles_parent, stray |-> stray_circles, rig_built |-> rig_built,
     entered |-> FALSE, raised |-> FALSE]

Pressed(button, bx) ==
    /\ box_state' = bx.state
    /\ buttons' = bx.buttons
    /\ tuning_enabled' = bx.tuning
    /\ frame_exists' = bx.frame
    /\ core_exists' = bx.core
    /\ frame_locked' = bx.locked
    /\ circles_in_scene' = bx.circles
    /\ circles_recorded' = bx.recorded
    /\ circles_parent' = bx.parent
    /\ stray_circles' = bx.stray
    /\ rig_built' = bx.rig_built
    /\ last_press' = [from |-> box_state, button |-> button, to |-> bx.state,
                      entered |-> bx.entered, raised |-> bx.raised]

\* The user presses a button the box shows.
Press(button, outcome) ==
    /\ pc = "rig"
    /\ button \in buttons
    /\ outcome \in FinishOutcomes
    /\ stray_circles < MaxStray
    /\ Pressed(button, handler(Box, button, circle_ctrl_count, outcome, box_source))
    /\ UNCHANGED <<box_source, circle_ctrl_count, outliner, returned, beltVars, eventVars, chainVars, reflectVars, armVars>>

\* The user moves the Wheel Count slider of the tuning panel.
SetWheelCount(n) ==
    /\ pc = "rig"
    /\ tuning_enabled
    /\ n \in MinWheelCount..MaxWheelCount
    /\ circle_ctrl_count' = n
    /\ UNCHANGED <<box_source, box_state, buttons, tuning_enabled, frame_exists, core_exists, frame_locked, circles_in_scene, last_press, outliner, returned, circleVars, beltVars, eventVars, chainVars, reflectVars, armVars>>

\* The user deletes the frame in the viewport, and with it the circles
\* parented under it.
UserDeleteFrame ==
    /\ pc = "rig"
    /\ frame_exists
    /\ frame_exists' = FALSE
    /\ frame_locked' = FALSE
    /\ circles_in_scene' = IF circles_parent = "frame" THEN 0 ELSE circles_in_scene
    /\ circles_parent' = IF circles_parent = "frame" THEN "none" ELSE circles_parent
    /\ UNCHANGED <<circles_recorded, stray_circles, rig_built, box_source, box_state, buttons, tuning_enabled, core_exists, circle_ctrl_count, last_press, outliner, returned, beltVars, eventVars, chainVars, reflectVars, armVars>>

NoPress == [from |-> "", button |-> "", to |-> "starting", entered |-> FALSE, raised |-> FALSE]

(***************************************************************************)
(* CtrlImporter.import_ctrl.  The imported file holds two top-level nodes, *)
(* a node below one of them and the loose node of its specification; the   *)
(* outliner maps every node of the scene to its parent (<<>> is the world).*)
(***************************************************************************)
MaxPrefix == 2
PrefixNames == <<"L", "R", "M", "N">>
Prefixes == {<<>>} \cup {<<PrefixNames[k]>> : k \in 1..MaxPrefix}

TEMP_IMPORT_GROUP_NAME == <<"ar_temp_import">>
FileCtrl == <<"Gear_Ctrl">>
FileCtrlArt == <<"Gear_Ctrl_Art">>
FileArtShape == <<"Gear_Art">>
LOSE_NODE_NAMES == {<<"CtrlShape_Size_Multiplier">>}
RigGroup == <<"Rig_Group">>
World == <<>>

\* cmds.file(..., i=True, gr=True, gn=TEMP_IMPORT_GROUP_NAME)
file_import(out) ==
    [n \in DOMAIN out \cup {TEMP_IMPORT_GROUP_NAME, FileCtrl, FileCtrlArt, FileArtShape} \cup LOSE_NODE_NAMES |->
        IF n \in {FileCtrl, FileCtrlArt} THEN TEMP_IMPORT_GROUP_NAME
        ELSE IF n = FileArtShape THEN FileCtrlArt
        ELSE IF n \in LOSE_NODE_NAMES \cup {TEMP_IMPORT_GROUP_NAME} THEN World
        ELSE out[n]]

listRelatives(out, name) == {n \in DOMAIN out : out[n] = name}

RECURSIVE hierarchy(_, _)
hierarchy(out, names) ==
    IF \A n \in names : listRelatives(out, n) \subseteq names THEN names
    ELSE hierarchy(out, names \cup UNION {listRelatives(out, n) : n \in names})

Prefixed(prefix, assets, n) == IF n \in assets THEN prefix \o <<"_">> \o n ELSE n

\* The loop of lines 36-38: every asset gets the name f"{prefix}_{asset}".
rename_all(out, prefix, assets) ==
    [m \in {Prefixed(prefix, assets, n) : n \in DOMAIN out} |->
        Prefixed(prefix, assets, out[CHOOSE n \in DOMAIN out : Prefixed(prefix, assets, n) = m])]

\* cmds.ungroup: the children of the group move to its parent, the group goes
ungroup(out, group) ==
    [n \in DOMAIN out \ {group} |-> IF out[n] = group THEN out[group] ELSE out[n]]

\* cmds.parent(cmds.ls(sl=True), destiny_group): after ungroup the selection
\* holds the former children of the group
parent_under(out, children, destiny_group) ==
    [n \in DOMAIN out |-> IF n \in children THEN destiny_group ELSE out[n]]

import_regroup(out, children, destiny_group) ==
    IF destiny_group # <<>> THEN parent_under(ungroup(out, TEMP_IMPORT_GROUP_NAME), children, destiny_group)
    ELSE ungroup(out, TEMP_IMPORT_GROUP_NAME)

imported_assets(out) == hierarchy(out, listRelatives(out, TEMP_IMPORT_GROUP_NAME)) \cup LOSE_NODE_NAMES

\* Lines 40-45 on the renamed scene: the scene import_ctrl leaves, the pair
\* it returns (the names read at line 29, in the file's order) and the two
\* top-level nodes as they are named when it returns.
import_return(renamed, destiny_group) ==
    [outliner |-> import_regroup(renamed, listRelatives(renamed, TEMP_IMPORT_GROUP_NAME), destiny_group),
     ctrl |-> FileCtrl,
     ctrl_art |-> FileCtrlArt,
     top |-> listRelatives(renamed, TEMP_IMPORT_GROUP_NAME),
     destiny_group |-> destiny_group]

import_file(imported, prefix, destiny_group) ==
    import_return(rename_all(imported, prefix, imported_assets(imported)), destiny_group)

\* CtrlImporter.import_ctrl
import_ctrl(out, prefix, destiny_group) == import_file(file_import(out), prefix, destiny_group)

Imported(r) ==
    /\ outliner' = r.outliner
    /\ returned' = [called |-> TRUE, ctrl |-> r.ctrl, ctrl_art |-> r.ctrl_art, top |-> r.top, destiny_group |-> r.destiny_group]

\* A call of import_ctrl with a prefix no earlier import used (with a used
\* prefix the host picks other names than the ones asked for).
ImportCtrl(prefix, destiny_group) ==
    /\ pc = "rig"
    /\ prefix \in Prefixes
    /\ destiny_group \in {<<>>, RigGroup}
    /\ prefix \o <<"_">> \o FileCtrl \notin DOMAIN outliner
    /\ Imported(import_ctrl(outliner, prefix, destiny_group))
    /\ UNCHANGED <<box_source, box_state, buttons, tuning_enabled, frame_exists, core_exists, frame_locked, circles_in_scene, circle_ctrl_count, last_press, circleVars, beltVars, eventVars, chainVars, reflectVars, armVars>>

NotCalled == [called |-> FALSE, ctrl |-> <<>>, ctrl_art |-> <<>>, top |-> {}, destiny_group |-> <<>>]

\* The belt control box as it is drawn, a new BeltRigBuilder, and a scene
\* that holds the rig's group.
InitRigWith(source) ==
    /\ box_source = source
    /\ box_state = "starting"
    /\ buttons = ButtonsOf("starting")
    /\ tuning_enabled = TRUE
    /\ frame_exists = FALSE
    /\ core_exists = FALSE
    /\ frame_locked = FALSE
    /\ circles_in_scene = 0
    /\ circles_recorded = 0
    /\ circles_parent = "none"
    /\ stray_circles = 0
    /\ rig_built = FALSE
    /\ circle_ctrl_count = MinWheelCount
    /\ last_press = NoPress
    /\ outliner = [n \in {RigGroup} |-> World]
    /\ returned = NotCalled

(***************************************************************************)
(* The arm control box of window.py and the ArmRigBuilder operations its    *)
(* handlers call.  A record `ar` is threaded through the operators as `bx`  *)
(* is in the belt box.  `outcome` is how the scene commands of the press    *)
(* go: "done", "raise" (the first one raises) or "raise late" (one raises   *)
(* after the locators were deleted).                                        *)
(***************************************************************************)
MaxLocatorCount == 2
MinLocatorCount == 1

kCancel == "Cancel"
kBuildIK == "Build IK"
kFinish == "Finish"

ArmButtonsOf(s) ==
    IF s = "starting" THEN {kStart}
    ELSE IF s = "setup_loc" THEN {"Accept", "Reset", kCancel}
    ELSE {kBuildIK, kFinish}

\* The `state` decorator's wrapper of arm_control_box_widget
enter_arm_state(ar, s) ==
    IF ar.raised THEN ar
    ELSE [ar EXCEPT !.state = s, !.buttons = ArmButtonsOf(s), !.entered = TRUE]

arm_starting_state(ar) == enter_arm_state(ar, "starting")
setup_loc_state(ar) == enter_arm_state(ar, "setup_loc")
setup_ik_state(ar) == enter_arm_state(ar, "setup_ik")

\* ArmRigBuilder.create_locator: a new list of locator_count locators and
\* their group
create_locator(ar, count) ==
    IF ar.raised THEN ar
    ELSE [ar EXCEPT !.recorded = count, !.locators = count]

\* ArmRigBuilder.reset_locator: the locators are deleted and the list
\* cleared, then the group is selected and deleted
reset_locator(ar, outcome) ==
    IF ar.raised THEN ar
    ELSE IF outcome = "raise" \/ ar.locators # ar.recorded THEN [ar EXCEPT !.raised = TRUE]
    ELSE [ar EXCEPT !.locators = 0, !.recorded = 0, !.raised = (outcome # "done")]

\* ArmRigBuilder.bake_locator_position: reads the position of every locator
bake_locator_position(ar) ==
    IF ar.raised THEN ar
    ELSE IF ar.locators # ar.recorded THEN [ar EXCEPT !.raised = TRUE]
    ELSE ar

\* ArmRigBuilder.create_joints: locator_count joints, each matched to
\* locators[i - 1], then reset_locator
create_joints(ar, count, outcome) ==
    IF ar.raised THEN ar
    ELSE IF ar.recorded < count THEN [ar EXCEPT !.joints = TRUE, !.raised = TRUE]
    ELSE reset_locator([ar EXCEPT !.joints = TRUE], outcome)

\* ArmRigBuilder.create_ik_controllers: raises unless two joints are selected
create_ik_controllers(ar, outcome) ==
    IF ar.raised THEN ar
    ELSE IF outcome # "done" THEN [ar EXCEPT !.raised = TRUE]
    ELSE [ar EXCEPT !.ik = TRUE]

\* The handlers of the three states of the arm box
arm_on_kickstart_tool(ar, count) == create_locator(setup_loc_state(enable_tuning_panel(ar, FALSE)), count)
arm_on_reset(ar, count, outcome) == setup_loc_state(create_locator(reset_locator(ar, outcome), count))
arm_on_apply(ar, count, outcome) == setup_ik_state(create_joints(bake_locator_position(ar), count, outcome))
arm_on_cancel(ar, outcome) == arm_starting_state(enable_tuning_panel(reset_locator(ar, outcome), TRUE))
arm_on_build_ik(ar, outcome) == create_ik_controllers(ar, outcome)
arm_on_finish(ar) == arm_starting_state(enable_tuning_panel(ar, TRUE))

arm_handler(ar, button, count, outcome) ==
    IF button = kStart THEN arm_on_kickstart_tool(ar, count)
    ELSE IF button = "Reset" THEN arm_on_reset(ar, count, outcome)
    ELSE IF button = "Accept" THEN arm_on_apply(ar, count, outcome)
    ELSE IF button = kCancel THEN arm_on_cancel(ar, outcome)
    ELSE IF button = kBuildIK THEN arm_on_build_ik(ar, outcome)
    ELSE arm_on_finish(ar)

ArmBox ==
    [state |-> arm_state, buttons |-> arm_buttons, tuning |-> arm_tuning_enabled,
     recorded |-> locators_recorded, locators |-> locators_in_scene,
     joints |-> joints_built, ik |-> ik_built, entered |-> FALSE, raised |-> FALSE]

ArmPressed(button, ar) ==
    /\ arm_state' = ar.state
    /\ arm_buttons' = ar.buttons
    /\ arm_tuning_enabled' = ar.tuning
    /\ locators_recorded' = ar.recorded
    /\ locators_in_scene' = ar.locators
    /\ joints_built' = ar.joints
    /\ ik_built' = ar.ik
    /\ last_arm_press' = [from |-> arm_state, button |-> button, to |-> ar.state,
                          entered |-> ar.entered, raised |-> ar.raised]

\* The user presses a button the arm box shows.
ArmPress(button, outcome) ==
    /\ pc = "rig"
    /\ button \in arm_buttons
    /\ outcome \in FinishOutcomes
    /\ ArmPressed(button, arm_handler(ArmBox, button, locator_count, outcome))
    /\ UNCHANGED <<locator_count, beltVars, eventVars, chainVars, rigVars, reflectVars>>

\* The user moves the Locator Count slider of the arm tab's tuning panel,
\* which takes input while the panel is enabled.
SetLocatorCount(n) ==
    /\ pc = "rig"
    /\ arm_tuning_enabled
    /\ n \in MinLocatorCount..MaxLocatorCount
    /\ locator_count' = n
    /\ UNCHANGED <<arm_state, arm_buttons, arm_tuning_enabled, locators_recorded, locators_in_scene, joints_built, ik_built, last_arm_press, beltVars, eventVars, chainVars, rigVars, reflectVars>>

InitArm ==
    /\ arm_state = "starting"
    /\ arm_buttons = ArmButtonsOf("starting")
    /\ arm_tuning_enabled = TRUE
    /\ locator_count = MinLocatorCount
    /\ locators_recorded = 0
    /\ locators_in_scene = 0
    /\ joints_built = FALSE
    /\ ik_built = FALSE
    /\ last_arm_press = NoPress

(***************************************************************************)
(* The tuning panel's reflection (_MetadataFragment.extract_reflection).   *)
(* A target is the sequence of the annotated fields of its class, in       *)
(* declaration order; a field is named by its position.  Its annotation is *)
(* "element" (made by toggle, text_field, slider or dropdown: an Element,  *)
(* a label, a group and arguments), "bare" (an Annotated alias whose only  *)
(* metadata is an Element), "alias" (an Annotated alias with other         *)
(* metadata) or "plain" (a type).  A dict is the sequence of its items in  *)
(* insertion order.                                                        *)
(***************************************************************************)
MaxFields == 4
MaxGroups == 2
GroupNames == <<"Setup", "Animation", "Optional", "Naming Suffix">>
Groups == {""} \cup {GroupNames[k] : k \in 1..MaxGroups}

Field(annotation, group, has_default) == [annotation |-> annotation, group |-> group, has_default |-> has_default]
Fields ==
    {Field("element", g, d) : g \in Groups, d \in BOOLEAN}
        \cup {Field("bare", "", d) : d \in BOOLEAN}
        \cup {Field("alias", "", TRUE), Field("plain", "", TRUE)}

\* isinstance(field_metadata, _AnnotatedAlias) and
\* isinstance(field_metadata.__metadata__[0], Element)
is_about_this_system(field) == field.annotation \in {"element", "bare"}

\* fragment_groups.setdefault(group, []).append(fragment)
RECURSIVE setdefault_append(_, _, _)
setdefault_append(dict, key, fragment) ==
    IF dict = <<>> THEN <<[key |-> key, fragments |-> <<fragment>>]>>
    ELSE IF Head(dict).key = key
    THEN <<[Head(dict) EXCEPT !.fragments = Append(@, fragment)]>> \o Tail(dict)
    ELSE <<Head(dict)>> \o setdefault_append(Tail(dict), key, fragment)

\* Lines 78-80: the ungrouped fragments become the last item of the dict.
reflection_dict(fragment_groups, ungrouped_fragments) ==
    IF ungrouped_fragments # <<>>
    THEN Append(fragment_groups, [key |-> "", fragments |-> ungrouped_fragments])
    ELSE fragment_groups

\* The loop of lines 73-76 from field i on.  defaults_values[field_name]
\* raises KeyError for a field without a value in the body of the target's
\* own class (has_default is false for it, an inherited field included); the
\* unpacking of line 56 raises ValueError for metadata without label and
\* group.
RECURSIVE extract_loop(_, _, _, _)
extract_loop(fields, i, fragment_groups, ungrouped_fragments) ==
    IF i > Len(fields)
    THEN [raised |-> "", dict |-> reflection_dict(fragment_groups, ungrouped_fragments)]
    ELSE IF ~is_about_this_system(fields[i])
    THEN extract_loop(fields, i + 1, fragment_groups, ungrouped_fragments)
    ELSE IF ~fields[i].has_default THEN [raised |-> "KeyError", dict |-> <<>>]
    ELSE IF fields[i].annotation = "bare" THEN [raised |-> "ValueError", dict |-> <<>>]
    ELSE IF fields[i].group # ""
    THEN extract_loop(fields, i + 1, setdefault_append(fragment_groups, fields[i].group, i), ungrouped_fragments)
    ELSE extract_loop(fields, i + 1, fragment_groups, Append(ungrouped_fragments, i))

\* _MetadataFragment.extract_reflection
extract_reflection(fields) == extract_loop(fields, 1, <<>>, <<>>)

NotExtracted == [raised |-> "", dict |-> <<>>]

\* _TuningPanelBuilder.create reads the reflection of its target.
Extract ==
    /\ pc = "reflect"
    /\ reflection' = extract_reflection(target)
    /\ pc' = "reflected"
    /\ UNCHANGED <<unit, store, circles, err, starting_node, current_node, guide_direction, path, steps, traced, target, eventVars, chainVars, rigVars, armVars>>

InitReflectIdle ==
    /\ target = <<>>
    /\ reflection = NotExtracted

(***************************************************************************)
(* Inputs of the belt curve                                                *)
(***************************************************************************)
Ids(n) == [i \in 1..n |-> i]

\* The tangent between the two circles has length zero (the circles touch
\* from inside): its direction is MVector.normal() of a zero vector, which is
\* the host's business.  No input has such a pair.
Touching(a, b) ==
    LET delta == Max(Abs(a.r - b.r) * unit, MIN_DIFF_VALUE)
        D2 == (a.x - b.x) * (a.x - b.x) + (a.y - b.y) * (a.y - b.y)
    IN  /\ D2 > 0
        /\ delta % unit = 0
        /\ (delta \div unit) * (delta \div unit) = D2

RECURSIVE ChainX(_, _)
ChainX(gaps, i) == IF i = 1 THEN 0 ELSE ChainX(gaps, i - 1) + gaps[i - 1]

\* lists of up to MaxCircles circles on the grid, one grid step = 1 scene unit
GeneralInput(u, st) ==
    /\ u = SceneUnit
    /\ \E n \in 0..MaxCircles :
          st \in [1..n -> [x : 0..MaxX, y : 0..MaxY, r : 1..MaxR]]

\* two circles on a grid of FineUnit ticks
FineInput(u, st) ==
    /\ u = FineUnit
    /\ st \in [1..2 -> [x : 0..MaxX, y : 0..MaxY, r : 1..MaxR]]

\* equal circles listed with strictly increasing X
ChainInput(u, st) ==
    /\ u = SceneUnit
    /\ \E n \in 2..MaxChain :
          \E gaps \in [1..(n - 1) -> 1..MaxGap], ys \in [1..n -> 0..MaxChainY],
             r \in 1..MaxR :
             st = [i \in 1..n |-> Circle(ChainX(gaps, i), ys[i], r)]

\* the circles (0,0) r=10, (50,0) r=15, (100,0) r=10; one grid step = 5
WheelInput(u, st) ==
    /\ u = 5 * SceneUnit
    /\ st = <<Circle(0, 0, 2), Circle(10, 0, 3), Circle(20, 0, 2)>>

InitBelt ==
    /\ \/ GeneralInput(unit, store)
       \/ FineInput(unit, store)
       \/ ChainInput(unit, store)
       \/ WheelInput(unit, store)
    /\ circles = Ids(Len(store))
    /\ pc = "build"
    /\ err = ""
    /\ starting_node = 0
    /\ current_node = 0
    /\ guide_direction = kZeroVector
    /\ path = <<>>
    /\ steps = 0
    /\ traced = <<>>

Init ==
    /\ InitBelt
    /\ \A i, j \in 1..Len(store) : ~Touching(store[i], store[j])
    /\ event = <<>>
    /\ invoked = <<>>
    /\ last_op = NoOp
    /\ InitTools
    /\ InitRigWith("window.py")
    /\ InitReflectIdle
    /\ InitArm

Next == Begin \/ Step \/ Wrap \/ Trace

Spec == Init /\ [][Next]_vars

InitEvent ==
    /\ unit = SceneUnit
    /\ store = <<>>
    /\ circles = <<>>
    /\ pc = "idle"
    /\ err = ""
    /\ starting_node = 0
    /\ current_node = 0
    /\ guide_direction = kZeroVector
    /\ path = <<>>
    /\ steps = 0
    /\ traced = <<>>
    /\ event = <<>>
    /\ invoked = <<>>
    /\ last_op = NoOp
    /\ InitTools
    /\ InitRigWith("window.py")
    /\ InitReflectIdle
    /\ InitArm

NextEvent ==
    \/ \E h \in 1..MaxHandlers : Add(h)
    \/ \E h \in 1..MaxHandlers : Sub(h)
    \/ \E a \in 0..MaxArg : Call(a)

SpecEvent == InitEvent /\ [][NextEvent]_vars

\* The chain tool alone: no belt is being built and no Event is in use.
InitChain ==
    /\ unit = SceneUnit
    /\ store = <<>>
    /\ circles = <<>>
    /\ pc = "chain"
    /\ err = ""
    /\ starting_node = 0
    /\ current_node = 0
    /\ guide_direction = kZeroVector
    /\ path = <<>>
    /\ steps = 0
    /\ traced = <<>>
    /\ event = <<>>
    /\ invoked = <<>>
    /\ last_op = NoOp
    /\ InitTools
    /\ InitRigWith("window.py")
    /\ InitReflectIdle
    /\ InitArm

NextChain ==
    \/ StartPressed
    \/ \E n \in Typeable : TypeCurveName(n)
    \/ \E n \in Typeable : TypeMeshName(n)
    \/ ToggleKeep
    \/ \E sel \in Selections : SelectNodes(sel)

SpecChain == InitChain /\ [][NextChain]_vars

\* The belt control box and the importer alone.
InitRig ==
    /\ unit = SceneUnit
    /\ store = <<>>
    /\ circles = <<>>
    /\ pc = "rig"
    /\ err = ""
    /\ starting_node = 0
    /\ current_node = 0
    /\ guide_direction = kZeroVector
    /\ path = <<>>
    /\ steps = 0
    /\ traced = <<>>
    /\ event = <<>>
    /\ invoked = <<>>
    /\ last_op = NoOp
    /\ InitTools
    /\ \E source \in {"window.py", "belt_rig_builder.py"} : InitRigWith(source)
    /\ InitReflectIdle
    /\ InitArm

NextRig ==
    \/ \E button \in {kStart, "Accept", "Reset", "Back"}, outcome \in FinishOutcomes : Press(button, outcome)
    \/ \E n \in MinWheelCount..MaxWheelCount : SetWheelCount(n)
    \/ UserDeleteFrame
    \/ \E prefix \in Prefixes, destiny_group \in {<<>>, RigGroup} : ImportCtrl(prefix, destiny_group)

SpecRig == InitRig /\ [][NextRig]_vars

\* The reflection alone, on every target of up to MaxFields fields.
InitReflect ==
    /\ unit = SceneUnit
    /\ store = <<>>
    /\ circles = <<>>
    /\ pc = "reflect"
    /\ err = ""
    /\ starting_node = 0
    /\ current_node = 0
    /\ guide_direction = kZeroVector
    /\ path = <<>>
    /\ steps = 0
    /\ traced = <<>>
    /\ event = <<>>
    /\ invoked = <<>>
    /\ last_op = NoOp
    /\ InitTools
    /\ InitRigWith("window.py")
    /\ target \in UNION {[1..n -> Fields] : n \in 0..MaxFields}
    /\ reflection = NotExtracted
    /\ InitArm

NextReflect == Extract

SpecReflect == InitReflect /\ [][NextReflect]_vars

\* The window of window.py with its two control boxes: the user presses the
\* buttons the boxes show and moves the sliders of the tuning panels.
InitBoxes ==
    /\ unit = SceneUnit
    /\ store = <<>>
    /\ circles = <<>>
    /\ pc = "rig"
    /\ err = ""
    /\ starting_node = 0
    /\ current_node = 0
    /\ guide_direction = kZeroVector
    /\ path = <<>>
    /\ steps = 0
    /\ traced = <<>>
    /\ event = <<>>
    /\ invoked = <<>>
    /\ last_op = NoOp
    /\ InitTools
    /\ InitRigWith("window.py")
    /\ InitReflectIdle
    /\ InitArm

NextBoxes ==
    \/ \E button \in {kStart, "Accept", "Reset", "Back"}, outcome \in FinishOutcomes : Press(button, outcome)
    \/ \E n \in MinWheelCount..MaxWheelCount : SetWheelCount(n)
    \/ \E button \in {kStart, "Accept", "Reset", kCancel, kBuildIK, kFinish}, outcome \in FinishOutcomes : ArmPress(button, outcome)
    \/ \E n \in MinLocatorCount..MaxLocatorCount : SetLocatorCount(n)

SpecBoxes == InitBoxes /\ [][NextBoxes]_vars

(***************************************************************************)
(* Properties                                                              *)
(***************************************************************************)
Returned == pc \in {"trace", "done"}     \* _build_belt_path returned `path`
PartsOf(id) == {i \in 1..Len(path) : path[i].circle = id}
PathCircles == [i \in 1..Len(path) |-> path[i].circle]
OncePerCircle ==
    /\ Len(path) = Len(circles)
    /\ \A k \in 1..Len(circles) : Cardinality(PartsOf(circles[k])) = 1
SameCenter(i, j) == store[i].x = store[j].x /\ store[i].y = store[j].y

\* C1: for every list of at least 2 circles the returned path has exactly
\* one part per input circle, every circle being visited exactly once before
\* the traversal is back at the starting circle.
C1_OnePartPerCircle ==
    (Len(circles) >= 2 /\ Returned) =>
        (OncePerCircle /\ current_node = starting_node)

\* C2: for every list of at least 2 circles the loop
\* `while starting_node != current_node` is left again.  The loop is
\* deterministic and its state is (current_node, guide_direction), the guide
\* being the direction of the tangent last taken; it is left again exactly if
\* it never takes the same tangent (from the same circle to the same circle)
\* a second time.
C2_LoopExits ==
    Len(circles) >= 2 =>
        \A i, j \in 1..Len(path) :
            (/\ i < j
             /\ path[i].circle = path[j].circle
             /\ path[i].tangent.to # 0)
            => path[i].tangent.to # path[j].tangent.to

\* C3: N >= 2 circles of equal radius listed with strictly increasing X are
\* all visited exactly once and the returned path has N parts.
EqualRadiusIncreasingX ==
    /\ Len(circles) >= 2
    /\ \A k \in 1..Len(circles) : store[circles[k]].r = store[circles[1]].r
    /\ \A k \in 1..(Len(circles) - 1) :
          store[circles[k]].x < store[circles[k + 1]].x

C3_ChainVisitsAll ==
    (EqualRadiusIncreasingX /\ Returned) =>
        (OncePerCircle /\ current_node = starting_node)

\* C4: the circles (0,0) r=10, (50,0) r=15, (100,0) r=10 are visited in the
\* order 0, 1, 2 (ids 1, 2, 3) and the returned path has three parts.
WheelScenario ==
    /\ Len(circles) = 3
    /\ \A k \in 1..3 : store[circles[k]].y = 0
    /\ store[circles[1]].x * unit = 0
    /\ store[circles[2]].x * unit = 50 * SceneUnit
    /\ store[circles[3]].x * unit = 100 * SceneUnit
    /\ store[circles[1]].r * unit = 10 * SceneUnit
    /\ store[circles[2]].r * unit = 15 * SceneUnit
    /\ store[circles[3]].r * unit = 10 * SceneUnit

C4_WheelOrder ==
    (WheelScenario /\ Returned) => PathCircles = <<1, 2, 3>>

\* C5: with fewer than 2 circles the computation fails with an
\* InsufficientCircles error of a guard, before any tangent is looked for.
C5_InsufficientCircles ==
    (Len(circles) < 2 /\ pc # "build") =>
        (pc = "error" /\ err = "InsufficientCircles" /\ steps = 0)

\* C6: a tangent computation that meets two circles with the same center
\* fails with a DegenerateGeometry error.
C6_DegenerateGeometry ==
    (/\ pc = "error"
     /\ Len(circles) >= 2
     /\ \E j \in 1..Len(circles) :
           circles[j] # current_node /\ SameCenter(current_node, circles[j]))
    => err = "DegenerateGeometry"

\* C7: with at least 2 circles find_external_tangent_in_system never returns
\* (None, None): the traversal never fails on a missing tangent.
C7_TangentFound ==
    Len(circles) >= 2 => err # "AttributeError"

C7_Witness ==
    /\ Len(circles) >= 3
    /\ pc = "done"
    /\ steps >= 3

\* C8 as stated: every part's tangent is emitted, its arc only if legal, in
\* path order with the arc before the tangent.
Emitted(i, kind) == \E k \in 1..Len(traced) : traced[k] = [part |-> i, kind |-> kind]
InPathOrder ==
    \A k \in 1..(Len(traced) - 1) :
        \/ traced[k].part < traced[k + 1].part
        \/ /\ traced[k].part = traced[k + 1].part
           /\ traced[k].kind = "arc"
           /\ traced[k + 1].kind = "tangent"

C8_TangentAlwaysEmitted ==
    pc = "done" =>
        /\ \A i \in 1..Len(path) : Emitted(i, "tangent")
        /\ \A i \in 1..Len(path) : Emitted(i, "arc") <=> is_legal(path[i].arc)
        /\ InPathOrder

\* C8 amended: every shape of a part, tangent or arc, is emitted exactly if
\* it is legal (start and end at least 0.001 apart), in path order with the
\* arc before the tangent.
C8_LegalShapesEmitted ==
    pc = "done" =>
        /\ \A i \in 1..Len(path) :
              Emitted(i, "tangent") <=> is_legal(path[i].tangent)
        /\ \A i \in 1..Len(path) : Emitted(i, "arc") <=> is_legal(path[i].arc)
        /\ \A k \in 1..Len(traced) : traced[k].part \in 1..Len(path)
        /\ InPathOrder

C8_Witness ==
    /\ pc = "done"
    /\ \E i \in 1..Len(path) : ~is_legal(path[i].tangent)
    /\ \E i \in 1..Len(path) : is_legal(path[i].arc) /\ Emitted(i, "arc")

\* C9: _build_belt_path leaves the circle list and every circle as it found
\* them.
C9_InputReadOnly ==
    [][circles' = circles /\ store' = store]_vars

C9_Witness ==
    /\ pc = "trace"
    /\ Len(path) >= 2
    /\ circles = Ids(Len(store))

\* C10: '+' subscribes at the end, '-' removes one subscription of the
\* handler and keeps the others in order, and a call invokes the subscribed
\* handlers, once per subscription, in subscription order, with its arguments.
Without(list, k) == SubSeq(list, 1, k - 1) \o SubSeq(list, k + 1, Len(list))

C10_EventStep ==
    /\ last_op'.op = "add" => event' = Append(event, last_op'.handler)
    /\ (last_op'.op = "sub" /\ last_op'.raised = "") =>
          \E k \in 1..Len(event) :
              event[k] = last_op'.handler /\ event' = Without(event, k)
    /\ last_op'.op = "call" =>
          /\ event' = event
          /\ invoked' = [k \in 1..Len(event) |->
                            [method |-> event[k], args |-> last_op'.args]]

PositionOf(id) == CHOOSE k \in 1..Len(circles) : circles[k] = id

C13_StartsAtSmallestX ==
    Len(path) >= 1 =>
        LET first == path[1].circle
        IN  /\ \A k \in 1..Len(circles) :
                  store[first].x <= store[circles[k]].x
            /\ \A k \in 1..(PositionOf(first) - 1) :
                  store[first].x < store[circles[k]].x
            /\ starting_node \in {0, first}

C13_Witness ==
    /\ Returned
    /\ PositionOf(path[1].circle) = 2
    /\ \E k \in 3..Len(circles) : store[circles[k]].x = store[path[1].circle].x

\* C14: every tangent of the path makes the smallest angle with the guide
\* direction of its step (the up vector for the first part, the direction of
\* the previous part's tangent afterwards) among the tangents from its circle
\* to the other circles of the list, and a strictly smaller one than those to
\* the circles listed before the chosen one.
GuideOf(i) == IF i = 1 THEN Vec(0, NS) ELSE path[i - 1].tangent.direction
AngleTo(i, k) ==
    angle(GuideOf(i),
          TangentLine(store[path[i].circle], store[circles[k]], circles[k]).direction)
ChosenAngle(i) == angle(GuideOf(i), path[i].tangent.direction)

C14_SmallestAngleChosen ==
    \A i \in 1..Len(path) :
        path[i].tangent.to # 0 =>
            \A k \in 1..Len(circles) :
                circles[k] # path[i].circle =>
                    /\ ChosenAngle(i) <= AngleTo(i, k)
                    /\ k < PositionOf(path[i].tangent.to) =>
                           ChosenAngle(i) < AngleTo(i, k)

C14_Witness ==
    /\ Returned
    /\ \E i \in 2..Len(path) : \E k \in 1..Len(circles) :
          /\ circles[k] # path[i].circle
          /\ k > PositionOf(path[i].tangent.to)
          /\ AngleTo(i, k) = ChosenAngle(i)

\* C15: a circle visited earlier in the traversal is never selected as the
\* next node, other than the closing return to the starting circle: no circle
\* has two parts in the path, except that while the loop is being left the
\* last part is the duplicate entry of the starting circle.
ClosingEntry(i, j) ==
    /\ pc = "loop"
    /\ i = 1
    /\ j = Len(path)
    /\ current_node = starting_node

C15_OnlyUnvisitedSelected ==
    \A i, j \in 1..Len(path) :
        (i < j /\ path[i].circle = path[j].circle) => ClosingEntry(i, j)

\* C16: the returned path is a closed, continuous chain: every part has a
\* tangent, its arc ends where its tangent starts, the arc of the following
\* part (circularly, of the first part after the last) starts where that
\* tangent ends and belongs to the circle the tangent leads to; the last
\* part is not the duplicate entry of the starting circle.
FollowingPart(i) == IF i = Len(path) THEN 1 ELSE i + 1

C16_ClosedChain ==
    Returned =>
        /\ \A i \in 1..Len(path) :
              /\ path[i].tangent.to # 0
              /\ path[i].arc.end = path[i].tangent.start
              /\ path[FollowingPart(i)].arc.start = path[i].tangent.end
              /\ path[FollowingPart(i)].circle = path[i].tangent.to
        /\ Len(path) >= 2
        /\ path[Len(path)].circle # path[1].circle

C16_Witness ==
    /\ Returned
    /\ Len(path) >= 3
    /\ path[1].arc.start = path[Len(path)].tangent.end
    /\ path[1].arc.start # kZeroVector

\* C17: for all circles a and b of the input, a.create_difference_circle(b)
\* has the center of a and the radius |a.radius - b.radius|, or 0.0001 where
\* that is smaller; the radius is never below 0.0001 and is exactly 0.0001
\* for equal radii.
DifferenceOf(i, j) == create_difference_circle(store[i], store[j])
RadiusGap(i, j) ==
    IF store[i].r >= store[j].r THEN (store[i].r - store[j].r) * unit
                                ELSE (store[j].r - store[i].r) * unit

C17_DifferenceCircle ==
    \A i, j \in 1..Len(store) :
        /\ DifferenceOf(i, j).x = store[i].x
        /\ DifferenceOf(i, j).y = store[i].y
        /\ DifferenceOf(i, j).radius >= MIN_DIFF_VALUE
        /\ DifferenceOf(i, j).radius >= RadiusGap(i, j)
        /\ DifferenceOf(i, j).radius \in {RadiusGap(i, j), MIN_DIFF_VALUE}
        /\ store[i].r = store[j].r => DifferenceOf(i, j).radius = MIN_DIFF_VALUE

C17_Witness ==
    /\ pc = "done"
    /\ \E i \in 1..Len(path) :
          store[path[i].circle].r = store[path[i].tangent.to].r
    /\ \E i \in 1..Len(path) :
          store[path[i].circle].r # store[path[i].tangent.to].r


(***************************************************************************)
(* Properties of the chain tool                                            *)
(***************************************************************************)
Resamples == {i \in DOMAIN chain_log : chain_log[i].op = "resample_curve" /\ chain_log[i].outcome = "done"}

\* C11: when keep_original_curve is true, the original curve still exists
\* in the scene after resample_curve, and curve_name then names the rebuilt
\* copy; the original is replaced only when keep_original_curve is false.
C11_KeepCurveKeepsOriginal ==
    \A i \in Resamples :
        /\ chain_log[i].keep => /\ chain_log[i].kept
                                /\ chain_log[i].result = chain_log[i].name \o Rebuilt
        /\ ~chain_log[i].kept => ~chain_log[i].keep


Lookups == {i \in DOMAIN chain_log : chain_log[i].op \in {"get_curve_input", "get_mesh_input"}}

\* C18: _get_abstract_input returns the referred default name when it is set
\* and its shape is of the requested type, otherwise it falls back to the
\* selected object and returns it when that is of the requested type; every
\* call invokes exactly one of on_success / on_error, and a name is returned
\* if and only if on_success was the one invoked.
C18_LookupContract ==
    \A i \in Lookups :
        /\ chain_log[i].outcome \in {"on_success", "on_error"}
        /\ chain_log[i].default_ok =>
               chain_log[i].outcome = "on_success" /\ chain_log[i].result = chain_log[i].name
        /\ ~chain_log[i].default_ok /\ chain_log[i].selected_ok =>
               chain_log[i].outcome = "on_success" /\ chain_log[i].result = chain_log[i].selected
        /\ ~chain_log[i].default_ok /\ ~chain_log[i].selected_ok =>
               chain_log[i].outcome = "on_error"
        /\ chain_log[i].result # None <=> chain_log[i].outcome = "on_success"


Ran(i, op, outcome) == chain_log[i].op = op /\ chain_log[i].outcome = outcome
Before(i, op, outcome) == \E j \in 1..(i - 1) : Ran(j, op, outcome)

\* C20: pressing Start runs the steps in a fixed order, each gated on the
\* one before: build_curve only after the curve input resolved, the mesh
\* lookup only after build_curve finished, duplicate_mesh only after the
\* mesh input resolved; if the curve lookup fails none of them runs and the
\* 'not found' message is shown.
C20_StartOrder ==
    chain_log # <<>> =>
        /\ chain_log[1].op = "get_curve_input"
        /\ \A i \in DOMAIN chain_log :
               /\ chain_log[i].op = "resample_curve" => Before(i, "get_curve_input", "on_success")
               /\ chain_log[i].op = "get_mesh_input" => Before(i, "build_curve", "done")
               /\ chain_log[i].op = "duplicate_mesh" => Before(i, "get_mesh_input", "on_success")
        /\ chain_log[1].outcome # "on_success" =>
               Len(chain_log) = 1 /\ message = "curve not found"


(***************************************************************************)
(* Properties of the importer and the belt control box                     *)
(***************************************************************************)
\* C12: the pair of names import_ctrl returns names the two imported
\* top-level nodes as they exist in the scene when the call returns, after
\* the renaming with the prefix and the dissolving of the temporary group.
C12_ReturnedNamesExist ==
    returned.called =>
        /\ returned.ctrl \in DOMAIN outliner
        /\ returned.ctrl_art \in DOMAIN outliner
        /\ {returned.ctrl, returned.ctrl_art} = returned.top


Transitions ==
    {<<"starting", "Start Building Rig", "position_frame">>,
     <<"position_frame", "Reset", "position_frame">>,
     <<"position_frame", "Accept", "position_wheels">>,
     <<"position_frame", "Back", "starting">>,
     <<"position_wheels", "Reset", "position_wheels">>,
     <<"position_wheels", "Back", "position_frame">>,
     <<"position_wheels", "Accept", "starting">>}

\* C19: the belt control box is always in exactly one of its three states
\* and shows only that state's buttons, and a press that changes or
\* re-enters a state follows one of the seven listed transitions.
C19_BoxStateMachine ==
    /\ box_state \in {"starting", "position_frame", "position_wheels"}
    /\ buttons = IF box_state = "starting" THEN {"Start Building Rig"} ELSE {"Accept", "Reset", "Back"}
    /\ box_state = last_press.to
    /\ last_press.entered => <<last_press.from, last_press.button, last_press.to>> \in Transitions
    /\ ~last_press.entered => last_press.to \in {"starting", last_press.from}

C19_Witness ==
    /\ last_press = [from |-> "position_wheels", button |-> "Accept", to |-> "starting", entered |-> TRUE, raised |-> FALSE]
    /\ buttons = {"Start Building Rig"}


(***************************************************************************)
(* Properties of the tuning panel's reflection                             *)
(***************************************************************************)
Extracted == pc = "reflected"
Qualifying == {i \in DOMAIN target : target[i].annotation \in {"element", "bare"}}
ItemsWith(i) == {k \in DOMAIN reflection.dict : \E j \in DOMAIN reflection.dict[k].fragments : reflection.dict[k].fragments[j] = i}

\* Every qualifying field is in exactly one group, the one keyed by its
\* group name, and once; no other field is in any group; each group keeps
\* declaration order; named groups come in order of first appearance; the
\* key '' is the last item and is there exactly when a field is ungrouped.
GroupedByName ==
    /\ \A i \in Qualifying :
           /\ Cardinality(ItemsWith(i)) = 1
           /\ \A k \in ItemsWith(i) : reflection.dict[k].key = target[i].group
    /\ \A i \in DOMAIN target \ Qualifying : ItemsWith(i) = {}
    /\ \A k \in DOMAIN reflection.dict :
           /\ reflection.dict[k].fragments # <<>>
           /\ \A a, b \in DOMAIN reflection.dict[k].fragments :
                  a < b => reflection.dict[k].fragments[a] < reflection.dict[k].fragments[b]
    /\ \A k, l \in DOMAIN reflection.dict :
           k < l => /\ reflection.dict[k].key # ""
                    /\ reflection.dict[k].key # reflection.dict[l].key
                    /\ reflection.dict[l].key # "" => reflection.dict[k].fragments[1] < reflection.dict[l].fragments[1]
    /\ (\E i \in Qualifying : target[i].group = "") <=>
           (reflection.dict # <<>> /\ reflection.dict[Len(reflection.dict)].key = "")

\* C21: extract_reflection puts every field whose annotation is an Annotated
\* alias with an Element as first metadata into exactly one group keyed by
\* its group name, ignores every other field, keeps declaration order in
\* each group, orders named groups by first appearance and places the
\* ungrouped fields under '' as the last entry.
C21_ReflectionGroups == Extracted => reflection.raised = "" /\ GroupedByName

\* C22: in the belt box and in the arm box of window.py the tuning panel is
\* enabled exactly when the box is in its starting state, whatever buttons
\* were pressed and however the presses went: Start disables it and only a
\* handler that goes back to the starting state enables it again.
C22_TuningPanelEnabled ==
    /\ tuning_enabled <=> box_state = "starting"
    /\ arm_tuning_enabled <=> arm_state = "starting"

\* The belt box is back in its starting state after Accept built a rig, with
\* the panel enabled again, while the arm box waits in its last state with
\* its panel disabled.
C22_Witness ==
    /\ last_press.from = "position_wheels"
    /\ last_press.button = "Accept"
    /\ box_state = "starting"
    /\ tuning_enabled
    /\ last_arm_press.button = "Accept"
    /\ arm_state = "setup_ik"
    /\ ~arm_tuning_enabled

\* C23: whenever the belt box of window.py is in the position-wheels state
\* the frame exists and the circle controls of the rig under construction
\* are exactly circle_ctrl_count, all parented under the frame and all
\* recorded in circle_ctrls, with no other circle control left over by a
\* press.
C23_WheelControls ==
    box_state = "position_wheels" =>
        /\ frame_exists
        /\ circles_in_scene = circle_ctrl_count
        /\ circles_recorded = circle_ctrl_count
        /\ circles_parent = "frame"
        /\ stray_circles = 0

\* C24: the channels of the frame are locked whenever the belt box of
\* window.py is in the position-wheels state and unlocked whenever it is in
\* the position-frame state; the frame exists in both.
C24_FrameLock ==
    /\ box_state = "position_wheels" => frame_exists /\ frame_locked
    /\ box_state = "position_frame" => frame_exists /\ ~frame_locked

\* Back has brought the box from the position-wheels state, where the frame
\* was locked, to the position-frame state, and the frame is unlocked.
C24_Witness ==
    /\ last_press.from = "position_wheels"
    /\ last_press.button = "Back"
    /\ last_press.entered
    /\ box_state = "position_frame"
    /\ frame_exists
    /\ ~frame_locked
====
